---- MODULE Spec2Model ----
(***************************************************************************)
(* A model of pylabrobot/resources/hamilton_parse.py: the classifier of    *)
(* Hamilton definition files (get_resource_type), the carrier site         *)
(* extractors, the volume-equation synthesizer of create_plate_for_writing *)
(* and the public by-name constructors.                                    *)
(*                                                                         *)
(* Text is modelled as a sequence of tokens.  A token is a piece of text   *)
(* that none of the searched substrings ("_L.rck", "_P.rck", ".rck", "/",  *)
(* the carrier prefixes) straddles, so that startswith, endswith, replace, *)
(* basename and split act on the token sequence as Python's act on the     *)
(* characters.                                                             *)
(***************************************************************************)
EXTENDS Integers, Sequences, FiniteSets, Bags, TLC

VARIABLES
  fs,     \* the file system seen by get_resource_type: existing path -> content
  cls,    \* the last get_resource_type call: its path, outcome and file accesses
  file,   \* the definition file handed to a create_* function
  out,    \* the last create_* call and what it returned or raised
  ev      \* the last evaluation of a synthesized volume function

vars == <<fs, cls, file, out, ev>>

(***************************************************************************)
(* Bounds of the model.                                                    *)
(***************************************************************************)
MaxFiles == 1

MaxSites == 3

MaxY == 1

MaxSegments == 3

MaxHeight == 2

(***************************************************************************)
(* Python's str operations, on token sequences.                            *)
(***************************************************************************)
startswith(s, p) == Len(s) >= Len(p) /\ SubSeq(s, 1, Len(p)) = p

endswith(s, p) == Len(s) >= Len(p) /\ SubSeq(s, Len(s) - Len(p) + 1, Len(s)) = p

\* str.replace(old, new): every non-overlapping occurrence, left to right.
RECURSIVE replace(_, _, _)
replace(s, old, new) ==
  IF Len(s) < Len(old) THEN s
  ELSE IF SubSeq(s, 1, Len(old)) = old
       THEN new \o replace(SubSeq(s, Len(old) + 1, Len(s)), old, new)
       ELSE <<Head(s)>> \o replace(Tail(s), old, new)

\* The mutant of basename: the path itself (the prefix tested on the path).
basename_whole(p) == p

\* os.path.basename: what follows the last "/".
basename(p) ==
  LET slashes == {i \in 1..Len(p) : p[i] = "/"}
  IN  IF slashes = {} THEN p
      ELSE LET last == CHOOSE i \in slashes : \A j \in slashes : j <= i
           IN  SubSeq(p, last + 1, Len(p))

(***************************************************************************)
(* The field extractor (pylabrobot.utils.file_parsing, not among the       *)
(* sources): a record is a function from the keys it holds to their        *)
(* values, and a lookup of a key it does not hold raises ValueError.       *)
(***************************************************************************)
find(key, c) ==
  IF key \in DOMAIN c THEN [found |-> TRUE, val |-> c[key]]
  ELSE [found |-> FALSE, val |-> 0]

(***************************************************************************)
(* get_resource_type                                                       *)
(***************************************************************************)
TipRackIdLo == 170
TipRackIdHi == 180
PlateIdLo == 1000
PlateIdHi == 1100

L_RCK == <<"_L", ".rck">>
P_RCK == <<"_P", ".rck">>
RCK == <<".rck">>

Returned(kind, checked, opened) ==
  [raised |-> FALSE, value |-> kind, msg |-> <<>>, exists |-> checked, opened |-> opened]

Raised(msg, checked, opened) ==
  [raised |-> TRUE, value |-> "", msg |-> msg, exists |-> checked, opened |-> opened]

\* Lines 63-81: the rules applied to the content c of the opened file.
ClassifyContent(c, filename, checked, opened) ==
  LET cat == find("Category.0.Id", c)
      ctr == find("Cntr.1.file", c)
  IN  IF cat.found /\ cat.val \in TipRackIdLo..(TipRackIdHi - 1)
      THEN Returned("TipRack", checked, opened)
      ELSE IF cat.found /\ cat.val \in PlateIdLo..(PlateIdHi - 1)
      THEN Returned("Plate", checked, opened)
      ELSE IF ctr.found THEN Returned("Plate", checked, opened)
      ELSE Raised(<<"Unknown resource type for file ">> \o filename, checked, opened)

\* Lines 55-58: the path whose existence is tested and which is opened.
NormalizedPath(filepath) ==
  LET filename == basename(filepath)
      p1 == IF endswith(filepath, L_RCK) THEN replace(filepath, L_RCK, RCK) ELSE filepath
  IN  IF endswith(filename, P_RCK) THEN replace(p1, P_RCK, RCK) ELSE p1

get_resource_type(fsys, filepath) ==
  LET filename == basename(filepath)
  IN  IF startswith(filename, <<"PLT_CAR_">>) THEN Returned("PlateCarrier", <<>>, <<>>)
      ELSE IF startswith(filename, <<"TIP_CAR_">>) THEN Returned("TipCarrier", <<>>, <<>>)
      ELSE IF startswith(filename, <<"MFX_CAR_">>) THEN Returned("MFXCarrier", <<>>, <<>>)
      ELSE IF startswith(filename, <<"SMP_CAR_">>)
      THEN Raised(<<"SMP_CAR_ not supported yet">>, <<>>, <<>>)
      ELSE LET p == NormalizedPath(filepath)
           IN  IF p \notin DOMAIN fsys THEN Returned("TipRack", <<p>>, <<>>)
               ELSE ClassifyContent(fsys[p], filename, <<p>>, <<p>>)

(***************************************************************************)
(* The paths get_resource_type is called with, and the files on disk.      *)
(***************************************************************************)
Dirs == {<<>>, <<"d", "/">>, <<"d", "_L", ".rck", "/">>, <<"PLT_CAR_", "d", "/">>}

CarrierPrefixes == {<<"PLT_CAR_">>, <<"TIP_CAR_">>, <<"MFX_CAR_">>, <<"SMP_CAR_">>}

Suffixes == {<<>>, <<"_L">>, <<"_P">>}

CallPaths ==
  {d \o pre \o <<"X">> \o suf \o RCK :
     d \in Dirs, pre \in CarrierPrefixes \cup {<<>>}, suf \in Suffixes}

\* Paths that may exist: canonical files, a suffixed file, the file the replace
\* of line 56 names for a directory that itself holds "_L.rck", and a file with
\* a carrier prefix.
FSPaths ==
  {d \o <<"X">> \o RCK : d \in Dirs} \cup
  {<<"X", "_L", ".rck">>, <<"d", ".rck", "/", "X", ".rck">>, <<"PLT_CAR_", "X", ".rck">>}

CategoryIds ==
  {TipRackIdLo - 1, TipRackIdLo, TipRackIdHi - 1, TipRackIdHi,
   PlateIdLo - 1, PlateIdLo, PlateIdHi - 1, PlateIdHi}

Contents ==
  {[k \in {} |-> 0]} \cup
  {[k \in {"Cntr.1.file"} |-> "X.ctr"]} \cup
  {[k \in {"Category.0.Id"} |-> id] : id \in CategoryIds} \cup
  {[k \in {"Category.0.Id", "Cntr.1.file"} |-> IF k = "Category.0.Id" THEN id ELSE "X.ctr"] :
     id \in CategoryIds}

NoCall == [called |-> FALSE]

NoFile == [kind |-> "none"]

NoEval == [done |-> FALSE]

WriteFile(p, c) ==
  /\ cls = NoCall
  /\ Cardinality(DOMAIN fs \cup {p}) <= MaxFiles
  /\ fs' = [q \in DOMAIN fs \cup {p} |-> IF q = p THEN c ELSE fs[q]]
  /\ UNCHANGED <<cls, file, out, ev>>

RemoveFile(p) ==
  /\ cls = NoCall
  /\ p \in DOMAIN fs
  /\ fs' = [q \in DOMAIN fs \ {p} |-> fs[q]]
  /\ UNCHANGED <<cls, file, out, ev>>

Classify(p) ==
  /\ cls = NoCall
  /\ cls' = [called |-> TRUE, path |-> p, res |-> get_resource_type(fs, p)]
  /\ UNCHANGED <<fs, file, out, ev>>

ClassifyReturn ==
  /\ cls # NoCall
  /\ cls' = NoCall
  /\ UNCHANGED <<fs, file, out, ev>>

Init ==
  /\ fs = [q \in {} |-> 0]
  /\ cls = NoCall
  /\ file = NoFile
  /\ out = NoCall
  /\ ev = NoEval

NextClassify ==
  \/ \E p \in FSPaths, c \in Contents : WriteFile(p, c)
  \/ \E p \in FSPaths : RemoveFile(p)
  \/ \E p \in CallPaths : Classify(p)
  \/ ClassifyReturn

SpecClassify == Init /\ [][NextClassify]_vars

(***************************************************************************)
(* Carrier definition files.  A file holds its path, the delimiter byte    *)
(* that follows "Site.Cnt" (1 in plate and tip carrier files, 2 in         *)
(* multi-function carrier files), the sites Site.1..Site.count, each a     *)
(* function from the site's keys to their values, and the file's other     *)
(* keys.                                                                   *)
(***************************************************************************)
CarrierTypes == {"PLT", "TIP", "MFX"}

CarrierPath(t) ==
  CASE t = "PLT" -> <<"d", "/", "PLT_CAR_", "X", ".rck">>
    [] t = "TIP" -> <<"d", "/", "TIP_CAR_", "X", ".rck">>
    [] t = "MFX" -> <<"d", "/", "MFX_CAR_", "X", ".rck">>

CntDelim(t) == IF t = "MFX" THEN 2 ELSE 1

XValues == {0, 1}

VisibleFlags == {0, 1}

SiteOf(x, y) ==
  [k \in {"X", "Y", "Z", "Dx", "Dy"} |->
     CASE k = "X" -> x [] k = "Y" -> y [] k = "Z" -> 0 [] k = "Dx" -> 127 [] k = "Dy" -> 86]

FlexSiteOf(x, y, v) ==
  [k \in {"X", "Y", "Z", "Dx", "Dy", "Visible"} |->
     IF k = "Visible" THEN v ELSE SiteOf(x, y)[k]]

CarrierKeys ==
  [k \in {"Dim.Dx", "Dim.Dy", "Dim.Dz", "Description"} |->
     CASE k = "Dim.Dx" -> 135 [] k = "Dim.Dy" -> 497 [] k = "Dim.Dz" -> 130
       [] k = "Description" -> "Carrier for 5 plates"]

\* find_int / find_float of the key Site.<i>.<key>.
find_site(i, key, c) ==
  IF i \in DOMAIN c.sites THEN find(key, c.sites[i]) ELSE [found |-> FALSE, val |-> 0]

Ok(v) == [raised |-> FALSE, exc |-> "", value |-> v]

Err(e) == [raised |-> TRUE, exc |-> e, value |-> <<>>]

\* str.split(".")[0]: the text before the first ".".
SplitDot0(s) ==
  LET dots == {i \in 1..Len(s) : s[i] \in {".rck", ".ctr"}}
  IN  IF dots = {} THEN s
      ELSE SubSeq(s, 1, (CHOOSE i \in dots : \A j \in dots : i <= j) - 1)

Coordinate(x, y, z) == [x |-> x, y |-> y, z |-> z]

\* Lines 294-301: the Coordinate of every site 1..site_count, in source order.
ReadSites(c) ==
  [i \in 1..Len(c.sites) |->
     Coordinate(find_site(i, "X", c).val, find_site(i, "Y", c).val, find_site(i, "Z", c).val)]

\* The mutant of SortKey: the x coordinate.
SortKey_x(s) == s.x

\* Line 302: key=lambda c: c.y
SortKey(s) == s.y

\* sorted(sites, key=...): a stable sort, here by insertion from the left.
RECURSIVE InsertSorted(_, _)
InsertSorted(sorted, e) ==
  IF sorted = <<>> THEN <<e>>
  ELSE IF SortKey(sorted[Len(sorted)]) <= SortKey(e) THEN Append(sorted, e)
  ELSE Append(InsertSorted(SubSeq(sorted, 1, Len(sorted) - 1), e), sorted[Len(sorted)])

RECURSIVE SortedSites(_)
SortedSites(s) ==
  IF s = <<>> THEN <<>>
  ELSE InsertSorted(SortedSites(SubSeq(s, 1, Len(s) - 1)), s[Len(s)])

CarrierDescriptor(type, c, sites) ==
  LET cname == SplitDot0(basename(c.path))
      n == Len(c.sites)
  IN  [type |-> type,
       name |-> cname,
       size_x |-> find("Dim.Dx", c.keys).val,
       size_y |-> find("Dim.Dy", c.keys).val,
       size_z |-> find("Dim.Dz", c.keys).val,
       sites |-> [locations |-> sites,
                  site_size_x |-> find_site(n, "Dx", c).val,
                  site_size_y |-> find_site(n, "Dy", c).val],
       model |-> cname]

\* Lines 288-319 and 323-354: the plate carrier and the tip carrier differ in
\* the class they construct only.
create_carrier_for_writing(type, c) ==
  IF c.cntDelim # 1 THEN Err("IndexError")
  ELSE IF Len(c.sites) = 0 THEN Err("UnboundLocalError")
  ELSE Ok(<<CarrierDescriptor(type, c, SortedSites(ReadSites(c))),
            find("Description", c.keys).val>>)

create_plate_carrier_for_writing(c) == create_carrier_for_writing("PlateCarrier", c)

create_tip_carrier_for_writing(c) == create_carrier_for_writing("TipCarrier", c)

\* Line 375: [s for i, s in enumerate(sites) if find_int(f"Site.{i}.Visible", c) == 1];
\* enumerate counts the sorted list from 0.
RECURSIVE VisibleSites(_, _, _)
VisibleSites(c, sites, i) ==
  IF i >= Len(sites) THEN <<>>
  ELSE (IF find_site(i, "Visible", c).val = 1 THEN <<sites[i + 1]>> ELSE <<>>)
       \o VisibleSites(c, sites, i + 1)

create_flex_carrier_for_writing(c) ==
  IF c.cntDelim # 2 THEN Err("IndexError")
  ELSE LET sorted == SortedSites(ReadSites(c))
       IN  IF \E i \in 0..(Len(sorted) - 1) : ~find_site(i, "Visible", c).found
           THEN Err("ValueError")
           ELSE IF Len(c.sites) = 0 THEN Err("UnboundLocalError")
           ELSE Ok(<<CarrierDescriptor("MFXCarrier", c, VisibleSites(c, sorted, 0)),
                     find("Description", c.keys).val>>)

(***************************************************************************)
(* The environment writes a carrier file; a create_*_for_writing call      *)
(* parses the file at hand.                                                *)
(***************************************************************************)
NewCarrierFile(t) ==
  /\ file = NoFile
  /\ out = NoCall
  /\ file' = [kind |-> "carrier", path |-> CarrierPath(t), cntDelim |-> CntDelim(t),
              sites |-> <<>>, keys |-> CarrierKeys]
  /\ UNCHANGED <<fs, cls, out, ev>>

AddSite(x, y, v) ==
  /\ file.kind = "carrier"
  /\ out = NoCall
  /\ Len(file.sites) < MaxSites
  /\ file' = [file EXCEPT !.sites =
                Append(@, IF file.cntDelim = 2 THEN FlexSiteOf(x, y, v) ELSE SiteOf(x, y))]
  /\ UNCHANGED <<fs, cls, out, ev>>

CreatePlateCarrierForWriting ==
  /\ file.kind = "carrier"
  /\ out = NoCall
  /\ out' = [called |-> TRUE, fn |-> "create_plate_carrier_for_writing",
             res |-> create_plate_carrier_for_writing(file)]
  /\ UNCHANGED <<fs, cls, file, ev>>

CreateTipCarrierForWriting ==
  /\ file.kind = "carrier"
  /\ out = NoCall
  /\ out' = [called |-> TRUE, fn |-> "create_tip_carrier_for_writing",
             res |-> create_tip_carrier_for_writing(file)]
  /\ UNCHANGED <<fs, cls, file, ev>>

CreateFlexCarrierForWriting ==
  /\ file.kind = "carrier"
  /\ out = NoCall
  /\ out' = [called |-> TRUE, fn |-> "create_flex_carrier_for_writing",
             res |-> create_flex_carrier_for_writing(file)]
  /\ UNCHANGED <<fs, cls, file, ev>>

\* The caller drops the result of the last call.
Return ==
  /\ out # NoCall
  /\ out' = NoCall
  /\ ev' = NoEval
  /\ UNCHANGED <<fs, cls, file>>

\* The environment takes the file away.
DropFile ==
  /\ file # NoFile
  /\ out = NoCall
  /\ file' = NoFile
  /\ UNCHANGED <<fs, cls, out, ev>>

NextCarrier ==
  \/ \E t \in CarrierTypes : NewCarrierFile(t)
  \/ \E x \in XValues, y \in 0..MaxY, v \in VisibleFlags :
       AddSite(x, y, v)
  \/ CreatePlateCarrierForWriting
  \/ CreateTipCarrierForWriting
  \/ CreateFlexCarrierForWriting
  \/ Return
  \/ DropFile

SpecCarrier == Init /\ [][NextCarrier]_vars

(***************************************************************************)
(* Plate definition files: the .rck file and its companion .ctr file with  *)
(* the well's segments, 1 the topmost and Segments the bottommost.  A      *)
(* volume equation is a sum of products over numbers and the variable h: a *)
(* sequence of terms, each a sequence of factors.  Lengths of the .rck     *)
(* file are whole numbers of 0.00001 mm; segment heights are whole.        *)
(***************************************************************************)
Num(n) == [t |-> "num", v |-> n]

H == [t |-> "h", v |-> 0]

\* The text "min(h, m)".
MinH(m) == [t |-> "min(h, _)", v |-> m]

\* The text "(h-k)".
HMinus(k) == [t |-> "(h-_)", v |-> k]

\* vol_eqn.replace("h", new): every h of the equation becomes new.
replace_h(eqn, new) ==
  [i \in 1..Len(eqn) |->
     [j \in 1..Len(eqn[i]) |-> IF eqn[i][j].t = "h" THEN new ELSE eqn[i][j]]]

Equations ==
  { <<<<Num(2), H>>>>,               \* 2*h
    <<<<H, H>>, <<Num(1)>>>> }       \* h*h+1

SegmentOf(max, eqn) ==
  [k \in {"Max", "EqnOfVol", "Shape"} |->
     CASE k = "Max" -> max [] k = "EqnOfVol" -> eqn [] k = "Shape" -> 0]

PlatePath == <<"d", "/", "Cos_96_", "DW", "_L", ".rck">>

PlateRckKeys ==
  [k \in {"Dim.Dx", "Dim.Dy", "Dim.Dz", "Columns", "Rows", "Dx", "Dy", "BndryX", "BndryY"} |->
     CASE k = "Dim.Dx" -> 12700000 [] k = "Dim.Dy" -> 8600000 [] k = "Dim.Dz" -> 1450000
       [] k = "Columns" -> 12 [] k = "Rows" -> 8
       [] k = "Dx" -> 900000 [] k = "Dy" -> 900000
       [] k = "BndryX" -> 1438000 [] k = "BndryY" -> 1124000]

PlateCtrKeys ==
  [k \in {"Dim.Dx", "Dim.Dy", "Depth", "BaseMM"} |->
     CASE k = "Dim.Dx" -> 686000 [] k = "Dim.Dy" -> 686000
       [] k = "Depth" -> 1120000 [] k = "BaseMM" -> 100000]

\* find_* of the key <i>.<key> of the .ctr file.
find_segment(i, key, c2) ==
  IF i \in DOMAIN c2.segments THEN find(key, c2.segments[i]) ELSE [found |-> FALSE, val |-> 0]

\* Lines 122-127.
rck2ctr(fn) ==
  replace(replace(replace(replace(fn, P_RCK, <<".ctr">>), L_RCK, <<".ctr">>),
                  RCK, <<".ctr">>), <<"ProtCryst">>, <<"Post">>)

\* The mutant of Accumulate: height_so_far = section_max_height.
Accumulate_assign(height_so_far, section_max_height) == section_max_height

\* Line 145: height_so_far += section_max_height
Accumulate(height_so_far, section_max_height) == height_so_far + section_max_height

\* The mutant of RewriteUpper: the segment's own height as the offset.
RewriteUpper_own(vol_eqn, height_so_far, section_max_height) ==
  replace_h(vol_eqn, HMinus(section_max_height))

\* Line 142: vol_eqn.replace("h", f"(h-{height_so_far})")
RewriteUpper(vol_eqn, height_so_far, section_max_height) ==
  replace_h(vol_eqn, HMinus(height_so_far))

\* Lines 135-145: the loop body for segment i, from num_segments down to 1;
\* acc is the text emitted so far, one statement per element.
RECURSIVE SynthesizeFrom(_, _, _, _)
SynthesizeFrom(c2, i, height_so_far, acc) ==
  IF i = 0 THEN [stmts |-> acc, height_so_far |-> height_so_far]
  ELSE LET vol_eqn == find_segment(i, "EqnOfVol", c2).val
           section_max_height == find_segment(i, "Max", c2).val
           stmt == IF i = Len(c2.segments)
                   THEN [op |-> "volume =", bound |-> 0,
                         expr |-> replace_h(vol_eqn, MinH(section_max_height))]
                   ELSE [op |-> "if h <=: volume +=", bound |-> section_max_height,
                         expr |-> RewriteUpper(vol_eqn, height_so_far, section_max_height)]
       IN  SynthesizeFrom(c2, i - 1, Accumulate(height_so_far, section_max_height),
                          Append(acc, stmt))

\* Lines 132-148: vol_eqn_func, the text of the function body.
vol_eqn_func(c2, cname) ==
  LET body == SynthesizeFrom(c2, Len(c2.segments), 0, <<>>)
  IN  body.stmts \o
      << [op |-> "if h >: raise ValueError", bound |-> body.height_so_far, expr |-> cname],
         [op |-> "return volume", bound |-> 0, expr |-> <<>>] >>

\* Lines 155-164.
\* The table with the inverted cone (2) kept as a V bottom.
well_bottom_type_cone(code) ==
  CASE code = 0 -> "FLAT" [] code = 1 -> "FLAT" [] code = 2 -> "V" [] code = 3 -> "V"
    [] code = 4 -> "U" [] code = 5 -> "V" [] OTHER -> "UNKNOWN"

well_bottom_type(code) ==
  CASE code = 0 -> "FLAT"
    [] code = 1 -> "FLAT"
    [] code = 3 -> "V"
    [] code = 4 -> "U"
    [] code = 5 -> "V"
    [] OTHER -> "UNKNOWN"

\* Lines 167-175.
cross_section_type(code) ==
  CASE code = 0 -> "CIRCLE"
    [] code = 1 -> "RECTANGLE"
    [] OTHER -> "CIRCLE"

\* round(v, 4) of a length in units of 0.00001 mm.  The lengths the model's files
\* hold are multiples of 0.0002 mm, so no half of them falls on a rounding tie.
\* The fifth decimal dropped instead of rounded.
Round4_trunc(v) == (v \div 10) * 10

Round4(v) == ((v + 5) \div 10) * 10

\* Lines 96-213.
create_plate_for_writing(f) ==
  LET c == f.rck
      c2 == f.ctr
      well_dx == find("Dx", c).val
      well_dy0 == find("Dy", c).val
      dx == Round4(find("BndryX", c).val - well_dx \div 2)
      dy == Round4(find("BndryY", c).val - well_dy0 \div 2)
      cname == SplitDot0(basename(f.path))
      well_dy == IF cname = <<"Cos_96_", "ProtCryst">> /\ well_dy0 = 450000
                 THEN 900000 ELSE well_dy0
      num_segments == Len(c2.segments)
      well_size_x == find("Dim.Dx", c2.keys).val
      well_size_y == find("Dim.Dy", c2.keys).val
      base == find("BaseMM", c2.keys)
  IN  IF rck2ctr(f.path) # f.ctrPath THEN Err("FileNotFoundError")
      ELSE IF num_segments = 0 THEN Err("ValueError")
      ELSE Ok(<<
        [type |-> "Plate",
         name |-> cname,
         size_x |-> find("Dim.Dx", c).val,
         size_y |-> find("Dim.Dy", c).val,
         size_z |-> find("Dim.Dz", c).val,
         num_items_x |-> find("Columns", c).val,
         num_items_y |-> find("Rows", c).val,
         items |-> [dx |-> dx + (well_dx - well_size_x) \div 2,
                    dy |-> dy + (well_dy - well_size_y) \div 2,
                    dz |-> IF base.found THEN base.val ELSE 0,
                    item_dx |-> well_dx,
                    item_dy |-> well_dy,
                    size_x |-> well_size_x,
                    size_y |-> well_size_y,
                    size_z |-> find("Depth", c2.keys).val,
                    bottom_type |->
                      well_bottom_type(find_segment(num_segments, "Shape", c2).val),
                    cross_section_type |->
                      cross_section_type(find_segment(1, "Shape", c2).val)],
         lid_height |-> 10,
         model |-> cname],
        cname,
        vol_eqn_func(c2, cname) >>)

(***************************************************************************)
(* The emitted function body, run as Python runs it.                       *)
(***************************************************************************)
EvalFactor(f, h) ==
  CASE f.t = "num" -> f.v
    [] f.t = "h" -> h
    [] f.t = "min(h, _)" -> IF h <= f.v THEN h ELSE f.v
    [] f.t = "(h-_)" -> h - f.v

RECURSIVE EvalTerm(_, _)
EvalTerm(term, h) ==
  IF term = <<>> THEN 1 ELSE EvalFactor(Head(term), h) * EvalTerm(Tail(term), h)

RECURSIVE EvalEqn(_, _)
EvalEqn(eqn, h) ==
  IF eqn = <<>> THEN 0 ELSE EvalTerm(Head(eqn), h) + EvalEqn(Tail(eqn), h)

RECURSIVE RunFrom(_, _, _, _)
RunFrom(stmts, k, h, volume) ==
  LET st == stmts[k]
  IN  CASE st.op = "volume =" -> RunFrom(stmts, k + 1, h, EvalEqn(st.expr, h))
        [] st.op = "if h <=: volume +=" ->
             RunFrom(stmts, k + 1, h,
                     IF h <= st.bound THEN volume + EvalEqn(st.expr, h) ELSE volume)
        [] st.op = "if h >: raise ValueError" ->
             IF h > st.bound THEN Err("ValueError") ELSE RunFrom(stmts, k + 1, h, volume)
        [] st.op = "return volume" -> Ok(volume)

compute_volume(stmts, h) == RunFrom(stmts, 1, h, 0)

NewPlateFile ==
  /\ file = NoFile
  /\ out = NoCall
  /\ file' = [kind |-> "plate", path |-> PlatePath, rck |-> PlateRckKeys,
              ctrPath |-> rck2ctr(PlatePath),
              ctr |-> [keys |-> PlateCtrKeys, segments |-> <<>>]]
  /\ UNCHANGED <<fs, cls, out, ev>>

\* The environment writes one more segment on top of the ones written.
AddSegment(max, eqn) ==
  /\ file.kind = "plate"
  /\ out = NoCall
  /\ Len(file.ctr.segments) < MaxSegments
  /\ file' = [file EXCEPT !.ctr.segments = <<SegmentOf(max, eqn)>> \o @]
  /\ UNCHANGED <<fs, cls, out, ev>>

CreatePlateForWriting ==
  /\ file.kind = "plate"
  /\ out = NoCall
  /\ out' = [called |-> TRUE, fn |-> "create_plate_for_writing",
             res |-> create_plate_for_writing(file)]
  /\ UNCHANGED <<fs, cls, file, ev>>

\* The caller evaluates the function it got at height h.
EvalVolume(h) ==
  /\ out.called
  /\ out.fn = "create_plate_for_writing"
  /\ ~out.res.raised
  /\ ev = NoEval
  /\ ev' = [done |-> TRUE, h |-> h, res |-> compute_volume(out.res.value[3], h)]
  /\ UNCHANGED <<fs, cls, file, out>>

NextPlate ==
  \/ NewPlateFile
  \/ \E max \in 1..MaxHeight, eqn \in Equations : AddSegment(max, eqn)
  \/ CreatePlateForWriting
  \/ \E h \in 0..(MaxSegments * MaxHeight + 1) : EvalVolume(h)
  \/ Return
  \/ DropFile

SpecPlate == Init /\ [][NextPlate]_vars

(***************************************************************************)
(* Plate files of varying geometry: the .rck file's boundary and pitch and *)
(* the .ctr file's well footprint on each axis, under either plate name.   *)
(* Lengths are whole numbers of 0.00001 mm.  Pitches and footprints are    *)
(* even, so the halves Python computes are whole, and no boundary minus    *)
(* half a pitch ends in 5, so round(_, 4) never meets a tie.               *)
(***************************************************************************)
ProtCrystPath == <<"d", "/", "Cos_96_", "ProtCryst", ".rck">>

PlatePaths == {PlatePath, ProtCrystPath}

Boundaries == {1438000, 1438004, 1438006}

Pitches == {450000, 900000}

WellSizes == {400000, 686000}

PlateRckOf(bx, by, px, py) ==
  [PlateRckKeys EXCEPT !["BndryX"] = bx, !["BndryY"] = by, !["Dx"] = px, !["Dy"] = py]

PlateCtrOf(sx, sy) == [PlateCtrKeys EXCEPT !["Dim.Dx"] = sx, !["Dim.Dy"] = sy]

\* The environment writes a plate's .rck file and its one-segment .ctr file.
NewPlateFileOf(path, bx, by, px, py, sx, sy) ==
  /\ file = NoFile
  /\ out = NoCall
  /\ file' = [kind |-> "plate", path |-> path, rck |-> PlateRckOf(bx, by, px, py),
              ctrPath |-> rck2ctr(path),
              ctr |-> [keys |-> PlateCtrOf(sx, sy),
                       segments |-> <<SegmentOf(1, <<<<Num(2), H>>>>)>>]]
  /\ UNCHANGED <<fs, cls, out, ev>>

NextCorner ==
  \/ \E path \in PlatePaths, bx \in Boundaries, by \in Boundaries,
        px \in Pitches, py \in Pitches, sx \in WellSizes, sy \in WellSizes :
        NewPlateFileOf(path, bx, by, px, py, sx, sy)
  \/ CreatePlateForWriting
  \/ Return
  \/ DropFile

SpecCorner == Init /\ [][NextCorner]_vars

(***************************************************************************)
(* Plate files whose segments carry any shape code.                        *)
(***************************************************************************)
MaxShapeCode == 6

ShapeCodes == (0 - 1)..MaxShapeCode

ShapedSegmentOf(code) == [SegmentOf(1, <<<<Num(2), H>>>>) EXCEPT !["Shape"] = code]

\* The environment writes one more segment, of shape code, on top.
AddShapedSegment(code) ==
  /\ file.kind = "plate"
  /\ out = NoCall
  /\ Len(file.ctr.segments) < MaxSegments
  /\ file' = [file EXCEPT !.ctr.segments = <<ShapedSegmentOf(code)>> \o @]
  /\ UNCHANGED <<fs, cls, out, ev>>

NextShape ==
  \/ NewPlateFile
  \/ \E code \in ShapeCodes : AddShapedSegment(code)
  \/ CreatePlateForWriting
  \/ Return
  \/ DropFile

SpecShape == Init /\ [][NextShape]_vars

(***************************************************************************)
(* Tip rack definition files.                                              *)
(***************************************************************************)
\* Lines 219-229.
tip_table ==
  [k \in {"MlStar4mlTipWithFilter", "MlStar5mlTipWithFilter", "MlStar10ulLowVolumeTip",
          "MlStar10ulLowVolumeTipWithFilter", "MlStar1000ulHighVolumeTipWithFilter",
          "MlStar1000ulHighVolumeTip", "MlStar5mlTip",
          "MlStar300ulStandardVolumeTipWithFilter", "MlStar300ulStandardVolumeTip"} |->
     CASE k = "MlStar4mlTipWithFilter" -> "four_ml_tip_with_filter"
       [] k = "MlStar5mlTipWithFilter" -> "five_ml_tip_with_filter"
       [] k = "MlStar10ulLowVolumeTip" -> "low_volume_tip_no_filter"
       [] k = "MlStar10ulLowVolumeTipWithFilter" -> "low_volume_tip_with_filter"
       [] k = "MlStar1000ulHighVolumeTipWithFilter" -> "high_volume_tip_with_filter"
       [] k = "MlStar1000ulHighVolumeTip" -> "high_volume_tip_no_filter"
       [] k = "MlStar5mlTip" -> "five_ml_tip"
       [] k = "MlStar300ulStandardVolumeTipWithFilter" -> "standard_volume_tip_with_filter"
       [] k = "MlStar300ulStandardVolumeTip" -> "standard_volume_tip_no_filter"]

TipRackPaths ==
  { <<"d", "/", "4", "mlTF", "_L", ".rck">>,
    <<"d", "/", "5", "mlT", "_L", ".rck">>,
    <<"d", "/", "STF", "_L", ".rck">> }

\* The values a file gives PropertyValue.6 and PropertyValue.4; "" is a file
\* without the key.
PropertyValues6 == {"", "MlStar4mlTipWithFilter", "MlStar300ulStandardVolumeTipWithFilter", "NoSuchTip"}

PropertyValues4 == {"", "MlStar5mlTip"}

TipRackKeys(pv6, pv4) ==
  LET always == {"Dim.Dx", "Dim.Dy", "Dim.Dz", "Dx", "Dy", "BndryX", "BndryY",
                 "Cntr.1.base", "Columns", "Rows", "Description"}
      held == always \cup (IF pv6 = "" THEN {} ELSE {"PropertyValue.6"})
                     \cup (IF pv4 = "" THEN {} ELSE {"PropertyValue.4"})
  IN  [k \in held |->
         CASE k = "Dim.Dx" -> 12240000 [] k = "Dim.Dy" -> 8260000 [] k = "Dim.Dz" -> 2000000
           [] k = "Dx" -> 900000 [] k = "Dy" -> 900000
           [] k = "BndryX" -> 1170000 [] k = "BndryY" -> 980000
           [] k = "Cntr.1.base" -> 0 - 5050000
           [] k = "Columns" -> 12 [] k = "Rows" -> 8
           [] k = "Description" -> "Rack with 96 tips"
           [] k = "PropertyValue.6" -> pv6
           [] k = "PropertyValue.4" -> pv4]

\* Lines 215-284.
create_tip_rack_for_writing(f) ==
  LET c == f.keys
      pv6 == find("PropertyValue.6", c)
      pv4 == find("PropertyValue.4", c)
      tip_type == IF pv6.found THEN pv6.val ELSE pv4.val
      tip_size_x == find("Dx", c).val
      tip_size_y == find("Dy", c).val
      base == SplitDot0(basename(f.path))
      cname == IF Head(base) = "4" THEN <<"Four">> \o Tail(base)
               ELSE IF Head(base) = "5" THEN <<"Five">> \o Tail(base)
               ELSE base
  IN  IF ~pv6.found /\ ~pv4.found THEN Err("ValueError")
      ELSE IF tip_type \notin DOMAIN tip_table THEN Err("KeyError")
      ELSE Ok(<<
        [type |-> "TipRack",
         name |-> cname,
         size_x |-> find("Dim.Dx", c).val,
         size_y |-> find("Dim.Dy", c).val,
         size_z |-> find("Dim.Dz", c).val,
         items |-> [num_items_x |-> find("Columns", c).val,
                    num_items_y |-> find("Rows", c).val,
                    dx |-> Round4(find("BndryX", c).val - tip_size_x \div 2),
                    dy |-> Round4(find("BndryY", c).val - tip_size_y \div 2),
                    dz |-> find("Cntr.1.base", c).val,
                    item_dx |-> tip_size_x,
                    item_dy |-> tip_size_y,
                    size_x |-> tip_size_x,
                    size_y |-> tip_size_y,
                    size_z |-> find("Dim.Dz", c).val,
                    make_tip |-> tip_table[tip_type]],
         model |-> cname],
        find("Description", c).val >>)

(***************************************************************************)
(* The public constructors.                                                *)
(***************************************************************************)
\* The mutant of SetName: the model renamed with the name.
SetName_and_model(resource, name) == [resource EXCEPT !.name = name, !.model = name]

\* Lines 403, 415, 427, 439 and 451: <resource>.name = name
SetName(resource, name) == [resource EXCEPT !.name = name]

\* The descriptor of the internal form's result, renamed; what it raised otherwise.
Renamed(r, name) == IF r.raised THEN r ELSE Ok(SetName(r.value[1], name))

create_plate(f, name) == Renamed(create_plate_for_writing(f), name)

create_tip_rack(f, name) == Renamed(create_tip_rack_for_writing(f), name)

create_plate_carrier(f, name) == Renamed(create_plate_carrier_for_writing(f), name)

create_tip_carrier(f, name) == Renamed(create_tip_carrier_for_writing(f), name)

create_flex_carrier(f, name) == Renamed(create_flex_carrier_for_writing(f), name)

Names == {<<"my_resource">>, <<"other">>}

NewTipRackFile(path, pv6, pv4) ==
  /\ file = NoFile
  /\ out = NoCall
  /\ file' = [kind |-> "tiprack", path |-> path, keys |-> TipRackKeys(pv6, pv4)]
  /\ UNCHANGED <<fs, cls, out, ev>>

CreateTipRackForWriting ==
  /\ file.kind = "tiprack"
  /\ out = NoCall
  /\ out' = [called |-> TRUE, fn |-> "create_tip_rack_for_writing",
             res |-> create_tip_rack_for_writing(file)]
  /\ UNCHANGED <<fs, cls, file, ev>>

CreatePlate(name) ==
  /\ file.kind = "plate"
  /\ out = NoCall
  /\ out' = [called |-> TRUE, fn |-> "create_plate", name |-> name,
             res |-> create_plate(file, name)]
  /\ UNCHANGED <<fs, cls, file, ev>>

CreateTipRack(name) ==
  /\ file.kind = "tiprack"
  /\ out = NoCall
  /\ out' = [called |-> TRUE, fn |-> "create_tip_rack", name |-> name,
             res |-> create_tip_rack(file, name)]
  /\ UNCHANGED <<fs, cls, file, ev>>

CreatePlateCarrier(name) ==
  /\ file.kind = "carrier"
  /\ out = NoCall
  /\ out' = [called |-> TRUE, fn |-> "create_plate_carrier", name |-> name,
             res |-> create_plate_carrier(file, name)]
  /\ UNCHANGED <<fs, cls, file, ev>>

CreateTipCarrier(name) ==
  /\ file.kind = "carrier"
  /\ out = NoCall
  /\ out' = [called |-> TRUE, fn |-> "create_tip_carrier", name |-> name,
             res |-> create_tip_carrier(file, name)]
  /\ UNCHANGED <<fs, cls, file, ev>>

CreateFlexCarrier(name) ==
  /\ file.kind = "carrier"
  /\ out = NoCall
  /\ out' = [called |-> TRUE, fn |-> "create_flex_carrier", name |-> name,
             res |-> create_flex_carrier(file, name)]
  /\ UNCHANGED <<fs, cls, file, ev>>

NextCreate ==
  \/ \E t \in CarrierTypes : NewCarrierFile(t)
  \/ \E x \in XValues, y \in 0..MaxY, v \in VisibleFlags : AddSite(x, y, v)
  \/ NewPlateFile
  \/ \E max \in 1..MaxHeight, eqn \in Equations : AddSegment(max, eqn)
  \/ \E path \in TipRackPaths, pv6 \in PropertyValues6, pv4 \in PropertyValues4 :
       NewTipRackFile(path, pv6, pv4)
  \/ CreateTipRackForWriting
  \/ \E name \in Names : CreatePlate(name)
  \/ \E name \in Names : CreateTipRack(name)
  \/ \E name \in Names : CreatePlateCarrier(name)
  \/ \E name \in Names : CreateTipCarrier(name)
  \/ \E name \in Names : CreateFlexCarrier(name)
  \/ Return
  \/ DropFile

SpecCreate == Init /\ [][NextCreate]_vars

\* All components together.  The components share no state but the file at hand,
\* and each property is checked under the specification of its component.
Next ==
  NextClassify \/ NextCarrier \/ NextPlate \/ NextCorner \/ NextShape \/ NextCreate

Spec == Init /\ [][Next]_vars

(***************************************************************************)
(* Claims about get_resource_type, checked under SpecClassify.             *)
(***************************************************************************)
Unprefixed == {d \o <<"X">> \o suf \o RCK : d \in Dirs, suf \in Suffixes}

\* The canonical path of the specification: a trailing _L.rck or _P.rck
\* becomes .rck, and nothing else of the path changes.
Canonical(p) ==
  IF endswith(p, L_RCK) \/ endswith(p, P_RCK) THEN SubSeq(p, 1, Len(p) - 2) \o RCK ELSE p

KindOfPrefix(pre) ==
  CASE pre = <<"PLT_CAR_">> -> "PlateCarrier"
    [] pre = <<"TIP_CAR_">> -> "TipCarrier"
    [] pre = <<"MFX_CAR_">> -> "MFXCarrier"
    [] OTHER -> ""

\* C4: a call whose filename (the part after the directory) starts with
\* PLT_CAR_, TIP_CAR_ or MFX_CAR_ returns the carrier kind of that prefix, and
\* one starting with SMP_CAR_ raises; in all four cases no existence test was
\* made and no file was opened, whatever the directory, the orientation suffix
\* and the files on disk.
C4_PrefixDecidesAlone ==
  \A d \in Dirs, pre \in CarrierPrefixes, suf \in Suffixes :
    (cls.called /\ cls.path = d \o pre \o <<"X">> \o suf \o RCK) =>
      /\ cls.res.exists = <<>>
      /\ cls.res.opened = <<>>
      /\ IF pre = <<"SMP_CAR_">>
         THEN cls.res.raised /\ cls.res.msg = <<"SMP_CAR_ not supported yet">>
         ELSE ~cls.res.raised /\ cls.res.value = KindOfPrefix(pre)

\* C4's case: PLT_CAR_X.rck is on disk with a tip-rack category id, and a call
\* on it returned PlateCarrier.
C4_Witness ==
  /\ cls.called
  /\ cls.path = <<"PLT_CAR_", "X", ".rck">>
  /\ cls.path \in DOMAIN fs
  /\ "Category.0.Id" \in DOMAIN fs[cls.path]
  /\ fs[cls.path]["Category.0.Id"] = TipRackIdLo
  /\ cls.res.value = "PlateCarrier"

\* C5: for every directory and every file system, the call on X_L.rck and the
\* call on X_P.rck end as the call on X.rck does: the same kind returned, or
\* both raising.
C5_SuffixSameAsCanonical ==
  \A d \in Dirs, suf \in {<<"_L">>, <<"_P">>} :
    LET r1 == get_resource_type(fs, d \o <<"X">> \o suf \o RCK)
        r0 == get_resource_type(fs, d \o <<"X">> \o RCK)
    IN  r1.raised = r0.raised /\ r1.value = r0.value

\* C6: a call on a path without carrier prefix whose canonical file exists is
\* decided by that file's content: Category.0.Id in 170..179 gives TipRack, in
\* 1000..1099 gives Plate, otherwise Plate exactly when Cntr.1.file is present,
\* and otherwise the call raises the unknown-resource-type error naming the file.
C6_ContentRulesInOrder ==
  (cls.called /\ cls.path \in Unprefixed /\ Canonical(cls.path) \in DOMAIN fs) =>
    LET c == fs[Canonical(cls.path)]
        hasCat == "Category.0.Id" \in DOMAIN c
    IN  IF hasCat /\ c["Category.0.Id"] >= 170 /\ c["Category.0.Id"] <= 179
        THEN ~cls.res.raised /\ cls.res.value = "TipRack"
        ELSE IF hasCat /\ c["Category.0.Id"] >= 1000 /\ c["Category.0.Id"] <= 1099
        THEN ~cls.res.raised /\ cls.res.value = "Plate"
        ELSE IF "Cntr.1.file" \in DOMAIN c
        THEN ~cls.res.raised /\ cls.res.value = "Plate"
        ELSE /\ cls.res.raised
             /\ cls.res.value = ""
             /\ cls.res.msg = <<"Unknown resource type for file ">> \o basename(cls.path)

\* C7: a call on a path without carrier prefix whose canonical file is not on
\* disk returns TipRack and opens no file.
C7_NoCanonicalFileIsTipRack ==
  (cls.called /\ cls.path \in Unprefixed /\ Canonical(cls.path) \notin DOMAIN fs) =>
    ~cls.res.raised /\ cls.res.value = "TipRack" /\ cls.res.opened = <<>>

(***************************************************************************)
(* Claims about the carrier site extractors, checked under SpecCarrier.    *)
(***************************************************************************)
Count(seq, e) == Cardinality({i \in DOMAIN seq : seq[i] = e})

Elements(seq) == {seq[i] : i \in DOMAIN seq}

SamePlaces(a, b) ==
  /\ Len(a) = Len(b)
  /\ \A e \in Elements(a) \cup Elements(b) : Count(a, e) = Count(b, e)

NonDecreasingY(locs) == \A i, j \in DOMAIN locs : i < j => locs[i].y <= locs[j].y

\* The coordinates of the file's sites, in source order, read off the file.
SourcePlaces(c) ==
  [i \in 1..Len(c.sites) |-> [x |-> c.sites[i]["X"], y |-> c.sites[i]["Y"], z |-> c.sites[i]["Z"]]]

\* The coordinates of the sites whose own Visible flag is 1, in source order.
RECURSIVE OwnVisiblePlaces(_, _)
OwnVisiblePlaces(c, i) ==
  IF i > Len(c.sites) THEN <<>>
  ELSE (IF c.sites[i]["Visible"] = 1 THEN <<SourcePlaces(c)[i]>> ELSE <<>>)
       \o OwnVisiblePlaces(c, i + 1)

\* C1: create_flex_carrier_for_writing on a multi-function carrier file with
\* sites 1..count (count >= 1) returns, as the carrier's site locations, exactly
\* the sites whose own Visible flag is 1, in non-decreasing y order.
C1_FlexKeepsOwnVisibleSites ==
  (/\ out.called
   /\ out.fn = "create_flex_carrier_for_writing"
   /\ file.cntDelim = 2
   /\ Len(file.sites) >= 1) =>
    /\ ~out.res.raised
    /\ SamePlaces(out.res.value[1].sites.locations, OwnVisiblePlaces(file, 1))
    /\ NonDecreasingY(out.res.value[1].sites.locations)

\* C3: create_plate_carrier_for_writing and create_tip_carrier_for_writing on a
\* carrier file with sites 1..count (count >= 1) hand the carrier a permutation
\* of the source sites' coordinates, ordered by non-decreasing y.
C3_CarrierSitesSortedPermutation ==
  (/\ out.called
   /\ out.fn \in {"create_plate_carrier_for_writing", "create_tip_carrier_for_writing"}
   /\ file.cntDelim = 1
   /\ Len(file.sites) >= 1) =>
    /\ ~out.res.raised
    /\ SamePlaces(out.res.value[1].sites.locations, SourcePlaces(file))
    /\ NonDecreasingY(out.res.value[1].sites.locations)

\* C3's case: three sites whose source order is not their y order, two of them
\* with the same y, and the tip carrier's locations differ from the source order.
C3_Witness ==
  /\ out.called
  /\ out.fn = "create_tip_carrier_for_writing"
  /\ ~out.res.raised
  /\ Len(file.sites) = 3
  /\ file.sites[1]["Y"] = 1
  /\ file.sites[2]["Y"] = 0
  /\ file.sites[3]["Y"] = 1
  /\ file.sites[1]["X"] # file.sites[3]["X"]
  /\ out.res.value[1].sites.locations # SourcePlaces(file)

(***************************************************************************)
(* Claims about the volume function, checked under SpecPlate.              *)
(***************************************************************************)
RECURSIVE SumMax(_, _, _)
SumMax(segments, from, to) ==
  IF from > to THEN 0 ELSE segments[from]["Max"] + SumMax(segments, from + 1, to)

Heights == 0..(MaxSegments * MaxHeight + 1)

\* The offsets k of the "(h-k)" texts of an emitted expression.
Offsets(expr) ==
  UNION {{expr[i][j].v : j \in {j \in DOMAIN expr[i] : expr[i][j].t = "(h-_)"}} : i \in DOMAIN expr}

\* C2: the synthesized function evaluated at h = 0 returns f_N(0), the
\* bottommost segment's equation at 0.
C2_ZeroHeightIsBaseCase ==
  (ev.done /\ ev.h = 0) =>
    /\ ~ev.res.raised
    /\ ev.res.value =
         EvalEqn(file.ctr.segments[Len(file.ctr.segments)]["EqnOfVol"], 0)

\* C8: an evaluation of the synthesized function raises the out-of-range error
\* exactly when h is greater than the sum of the max heights of all segments.
C8_GuardFiresAboveTotalHeight ==
  ev.done =>
    (ev.res.raised <=> ev.h > SumMax(file.ctr.segments, 1, Len(file.ctr.segments)))

\* C8's case: segments of max heights 2 (top) and 1 (bottom); the evaluation at
\* h = 4 raised.
C8_Witness ==
  /\ ev.done
  /\ Len(file.ctr.segments) = 2
  /\ file.ctr.segments[1]["Max"] = 2
  /\ file.ctr.segments[2]["Max"] = 1
  /\ ev.h = 4
  /\ ev.res.raised

InternalResult(fn, f) ==
  CASE fn = "create_plate" -> create_plate_for_writing(f)
    [] fn = "create_tip_rack" -> create_tip_rack_for_writing(f)
    [] fn = "create_plate_carrier" -> create_plate_carrier_for_writing(f)
    [] fn = "create_tip_carrier" -> create_tip_carrier_for_writing(f)
    [] fn = "create_flex_carrier" -> create_flex_carrier_for_writing(f)

PublicConstructors ==
  {"create_plate", "create_tip_rack", "create_plate_carrier", "create_tip_carrier",
   "create_flex_carrier"}

\* C9: a public constructor returns when its internal form returns for the same
\* file, and raises what it raises otherwise; the descriptor it returns has the
\* caller's name, and every other field of it (the model, the dimensions, the
\* items or sites) is the field of the internal form's descriptor.
C9_PublicFormOnlyRenames ==
  (out.called /\ out.fn \in PublicConstructors) =>
    LET r == InternalResult(out.fn, file)
    IN  /\ out.res.raised = r.raised
        /\ out.res.exc = r.exc
        /\ ~r.raised =>
             /\ out.res.value.name = out.name
             /\ DOMAIN out.res.value = DOMAIN r.value[1]
             /\ \A k \in DOMAIN r.value[1] \ {"name"} : out.res.value[k] = r.value[1][k]

\* C9's case: create_tip_rack returned a descriptor of a 4 ml tip rack, whose
\* model is the file-derived name and not the caller's.
C9_Witness ==
  /\ out.called
  /\ out.fn = "create_tip_rack"
  /\ ~out.res.raised
  /\ out.res.value.name = <<"my_resource">>
  /\ out.res.value.model = <<"Four", "mlTF", "_L">>

(***************************************************************************)
(* Claims about the well grid's corner, checked under SpecCorner.          *)
(***************************************************************************)
\* v rounded to 4 decimal places: the multiple of 0.0001 mm nearest to v.
Nearest4(v) == CHOOSE r \in (v - 5)..(v + 5) : r % 10 = 0 /\ (r - v) * 2 < 10 /\ (v - r) * 2 < 10

PlateMade == out.called /\ out.fn = "create_plate_for_writing" /\ ~out.res.raised

\* The row pitch of the .rck file, with the Cos_96_ProtCryst correction.
CorrectedDy ==
  IF SplitDot0(basename(file.path)) = <<"Cos_96_", "ProtCryst">> /\ file.rck["Dy"] = 450000
  THEN 900000 ELSE file.rck["Dy"]

\* C11, as stated: on each axis the corner offset of the well grid is
\* round(boundary - item_size/2, 4) + (cell_pitch - item_size)/2, with the
\* boundary and pitch of the .rck file and the well footprint of the .ctr
\* file as item_size, the Cos_96_ProtCryst row pitch being the only value
\* not taken from the file.
C11_CornerFromItemSize ==
  PlateMade =>
    LET c == file.rck
        c2 == file.ctr.keys
        items == out.res.value[1].items
    IN  /\ items.dx = Nearest4(c["BndryX"] - c2["Dim.Dx"] \div 2)
                        + (c["Dx"] - c2["Dim.Dx"]) \div 2
        /\ items.dy = Nearest4(c["BndryY"] - c2["Dim.Dy"] \div 2)
                        + (CorrectedDy - c2["Dim.Dy"]) \div 2

\* C11, amended: on each axis the corner offset of the well grid is
\* round(boundary - cell_pitch/2, 4) + (cell_pitch - item_size)/2; the
\* rounded term takes the pitch as read from the .rck file, and the
\* Cos_96_ProtCryst row pitch of 9.0 for 4.5 is the only value not taken
\* from the file: it enters the second term and the grid's row spacing.
C11_CornerFromCellPitch ==
  PlateMade =>
    LET c == file.rck
        c2 == file.ctr.keys
        items == out.res.value[1].items
    IN  /\ items.dx = Nearest4(c["BndryX"] - c["Dx"] \div 2)
                        + (c["Dx"] - c2["Dim.Dx"]) \div 2
        /\ items.dy = Nearest4(c["BndryY"] - c["Dy"] \div 2)
                        + (CorrectedDy - c2["Dim.Dy"]) \div 2
        /\ items.item_dx = c["Dx"]
        /\ items.item_dy = CorrectedDy
        /\ items.size_x = c2["Dim.Dx"]
        /\ items.size_y = c2["Dim.Dy"]

\* C11's case: Cos_96_ProtCryst with a row pitch of 4.5, a row boundary of
\* 14.38006 and wells of 6.86: the corner is 12.1301 + 1.07 = 13.2001.
C11_Witness ==
  /\ PlateMade
  /\ file.path = ProtCrystPath
  /\ file.rck["Dy"] = 450000
  /\ file.rck["BndryY"] = 1438006
  /\ file.ctr.keys["Dim.Dy"] = 686000
  /\ out.res.value[1].items.dy = 1320010
  /\ out.res.value[1].items.item_dy = 900000

(***************************************************************************)
(* Claims about the shape mapping, checked under SpecShape.                *)
(***************************************************************************)
\* C12: a plate file with N >= 1 segments of any shape codes is parsed
\* without failure; the well's bottom type is FLAT for code 0 or 1 of
\* segment N, V for 3 or 5, U for 4 and UNKNOWN for any other code; its
\* cross-section is RECTANGLE for code 1 of segment 1 and CIRCLE for any
\* other code; each depends on its own segment's code alone.
C12_ShapeMappingTotal ==
  (out.called /\ out.fn = "create_plate_for_writing" /\ Len(file.ctr.segments) >= 1) =>
    LET segs == file.ctr.segments
        bottom == segs[Len(segs)]["Shape"]
        top == segs[1]["Shape"]
    IN  /\ ~out.res.raised
        /\ out.res.value[1].items.bottom_type =
             IF bottom \in {0, 1} THEN "FLAT"
             ELSE IF bottom \in {3, 5} THEN "V"
             ELSE IF bottom = 4 THEN "U"
             ELSE "UNKNOWN"
        /\ out.res.value[1].items.cross_section_type =
             IF top = 1 THEN "RECTANGLE" ELSE "CIRCLE"

\* C12's case: the bottom segment of three has the unmapped code 2 and the
\* topmost the rectangle code 1, with a V-coded segment between them.
C12_Witness ==
  /\ out.called
  /\ out.fn = "create_plate_for_writing"
  /\ ~out.res.raised
  /\ Len(file.ctr.segments) = 3
  /\ file.ctr.segments[1]["Shape"] = 1
  /\ file.ctr.segments[2]["Shape"] = 3
  /\ file.ctr.segments[3]["Shape"] = 2
  /\ out.res.value[1].items.bottom_type = "UNKNOWN"
  /\ out.res.value[1].items.cross_section_type = "RECTANGLE"

====
